---- MODULE Spec2Model ----
(***************************************************************************)
(* Impersonation-search services (Twitter: src/index.ts, YouTube:          *)
(* src/unnamed/part_000, Facebook: src/unnamed/part_001).                  *)
(*                                                                         *)
(* Text is a sequence of one-character strings, so that lower-casing,      *)
(* substring search and the edit-distance matrix are computed, not         *)
(* assumed.  A similarity is the fraction num/den; 0/0 is NaN.             *)
(***************************************************************************)
EXTENDS Integers, Sequences, FiniteSets, TLC

(***************************************************************************)
(* Bounds of the model.                                                    *)
(***************************************************************************)
MaxStrLen == 3
MaxItems == 2

(***************************************************************************)
(* Text helpers.                                                           *)
(***************************************************************************)
\* An optional value (a JSON field, a destructured property): None is undefined.
None == <<>>

Some(v) == <<v>>

IsSome(o) == o # None

ValueOf(o) == o[1]

UpperToLower ==
    ("A" :> "a") @@ ("B" :> "b") @@ ("C" :> "c") @@ ("D" :> "d") @@ ("X" :> "x")

toLowerChar(c) == IF c \in DOMAIN UpperToLower THEN UpperToLower[c] ELSE c

\* String.prototype.toLowerCase
toLowerCase(s) == [i \in 1..Len(s) |-> toLowerChar(s[i])]

\* String.prototype.includes
includes(s, sub) ==
    \E k \in 0..(Len(s) - Len(sub)) : SubSeq(s, k + 1, k + Len(sub)) = sub

Min2(x, y) == IF x <= y THEN x ELSE y

\* a variant that takes the first length and ignores the second
Max2Left(x, y) == x

Max2(x, y) == IF x >= y THEN x ELSE y

RECURSIVE SeqsUpTo(_, _)
SeqsUpTo(S, n) ==
    IF n = 0 THEN {<<>>}
    ELSE LET shorter == SeqsUpTo(S, n - 1)
         IN  shorter \cup {Append(s, c) : s \in {t \in shorter : Len(t) = n - 1}, c \in S}

(***************************************************************************)
(* calculateSimilarity: the Levenshtein matrix, filled row by row as the   *)
(* nested loops do.  A row is the sequence matrix[i][0..len2], kept at     *)
(* index j + 1.                                                            *)
(***************************************************************************)
SubstCostTwo(c1, c2) == IF c1 = c2 THEN 0 ELSE 2

\* const cost = str1[i - 1] === str2[j - 1] ? 0 : 1
SubstCost(c1, c2) == IF c1 = c2 THEN 0 ELSE 1

\* for (let j = 0; j <= len2; j++) matrix[0][j] = j
FirstRow(len2) == [j \in 1..(len2 + 1) |-> j - 1]

\* One pass of the inner loop over j, for row i; cur holds matrix[i][0..j-1].
RECURSIVE FillRow(_, _, _, _, _)
FillRow(s1, s2, i, prev, cur) ==
    LET j == Len(cur)
    IN  IF j > Len(s2) THEN cur
        ELSE FillRow(s1, s2, i, prev,
                 Append(cur,
                     Min2(Min2(prev[j + 1] + 1, cur[j] + 1),
                          prev[j] + SubstCost(s1[i], s2[j]))))

\* The outer loop over i; rows holds matrix[0..i-1].
RECURSIVE FillMatrix(_, _, _)
FillMatrix(s1, s2, rows) ==
    LET i == Len(rows)
    IN  IF i > Len(s1) THEN rows
        ELSE FillMatrix(s1, s2, Append(rows, FillRow(s1, s2, i, rows[i], <<i>>)))

\* const distance = matrix[len1][len2], on the lower-cased inputs
LevMatrix(str1, str2) ==
    FillMatrix(toLowerCase(str1), toLowerCase(str2), <<FirstRow(Len(str2))>>)

Distance(str1, str2) == LevMatrix(str1, str2)[Len(str1) + 1][Len(str2) + 1]

NaN == [nan |-> TRUE, num |-> 0, den |-> 0]

Frac(n, d) == [nan |-> FALSE, num |-> n, den |-> d]

\* 1 - distance / maxLen; with maxLen = 0 the quotient is 0 / 0
OneMinusQuotient(distance, maxLen) ==
    IF maxLen = 0 THEN NaN ELSE Frac(maxLen - distance, maxLen)

calculateSimilarity(str1, str2) ==
    OneMinusQuotient(Distance(str1, str2), Max2(Len(str1), Len(str2)))

\* similarity >= threshold; any comparison with NaN is false
GreaterEq(sim, thr) ==
    IF sim.nan \/ thr.nan THEN FALSE ELSE sim.num * thr.den >= thr.num * sim.den

(***************************************************************************)
(* The three services.  One inbound request is followed from the handler   *)
(* to its response; every upstream answer is chosen when it is awaited.    *)
(***************************************************************************)
VARIABLES
    platform,        \* which service: "twitter", "youtube", "facebook"
    endpoint,        \* "search" or "extended" (YouTube's /api/extended-search)
    useApi,          \* Twitter: USE_API and a configured bearer token
    body,            \* the request's JSON body, or BadJson
    options,         \* the handler's CrawlOptions, None before it is built
    pc,              \* position of the request in the handler and its sources
    results,         \* the running source's local results array
    n,               \* upstream items the request has met so far
    apiResults,      \* what the API function returned (channelResults), None before
    channelIds,      \* extended-search: the Set of channel ids already met
    seen,            \* history: candidates that passed an inclusion test, in order
    last,            \* history: the last step of the list being processed, or None
    calls,           \* history: the sources invoked, in order
    returns,         \* history: what each source function returned, in order
    slept,           \* history: the durations passed to setTimeout
    timeline,        \* history: the suspensions and the per-item work, in order
    thresholds,      \* history: the thresholds similarities were compared with
    limits,          \* history: the limits sent upstream
    response,        \* the HTTP response, None until the handler answers
    str1, str2,      \* arguments of a direct call of calculateSimilarity
    simResult,       \* its result, None before the call
    simSwapped,      \* the result of the call with the arguments exchanged, or None
    upstream,        \* two simultaneous requests: what each one's upstream answers
    cpc,             \* two simultaneous requests: the await each one is suspended at
    cidx,            \* two simultaneous requests: the matches each loop has consumed
    heap,            \* two simultaneous requests: the results arrays allocated
    replies          \* two simultaneous requests: each one's response, or None

cfgVars == <<platform, endpoint, useApi, body>>

simVars == <<str1, str2, simResult, simSwapped>>

concVars == <<upstream, cpc, cidx, heap, replies>>

histVars == <<seen, last, calls, returns, slept, timeline, thresholds, limits>>

vars == <<platform, endpoint, useApi, body, options, pc, results, n, apiResults,
          channelIds, seen, last, calls, returns, slept, timeline, thresholds, limits,
          response,
          str1, str2, simResult, simSwapped, upstream, cpc, cidx, heap, replies>>

(***************************************************************************)
(* Program constants.                                                      *)
(***************************************************************************)
TwitterDefaultLimit == 100
TwitterDefaultThrottle == 2000
TwitterScrapeThrottle == 3000
YouTubeDefaultLimit == 50
ExtendedDefaultLimit == 30
YouTubeDefaultThrottle == 1000
FacebookDefaultLimit == 25
FacebookDefaultThrottle == 1000
YouTubeScrapeThrottle == 2000
FacebookScrapeThrottle == 2000

\* 0.7
DefaultThreshold == Frac(7, 10)

(***************************************************************************)
(* Inputs.                                                                 *)
(***************************************************************************)
Kw == <<"a", "b">>

Names == {<<"A", "b">>, <<"a", "c">>, <<"c", "d">>}

Ids == {<<"a", "b">>, <<"c", "d">>}

\* A text that contains the keyword in another letter case, and one that does not.
WithKw == <<"x", "A", "B">>

WithoutKw == <<"c", "c">>

OptionTriples ==
    { <<None, None, None>>,
      <<Some(0), Some(0), Some(Frac(0, 1))>>,
      <<Some(7), Some(5), Some(Frac(1, 2))>>,
      <<Some(7), Some(5), Some(Frac(1, 1))>> }

\* None is a body that c.req.json() cannot parse.
Bodies ==
    {None}
    \cup
    { Some([keyword |-> k, limit |-> None, throttleMs |-> None, fuzzyThreshold |-> None]) :
        k \in {None, Some(<<>>)} }
    \cup
    { Some([keyword |-> Some(Kw), limit |-> t[1], throttleMs |-> t[2],
            fuzzyThreshold |-> t[3]]) : t \in OptionTriples }

\* An item of an upstream list; a missing name is what makes an item malformed.
Malformed == [name |-> None, desc |-> None, id |-> <<"c", "d">>]

ApiItems ==
    { [name |-> Some(nm), desc |-> d, id |-> i] :
        nm \in Names, d \in {None, Some(WithKw)}, i \in Ids }
    \cup {Malformed}

\* What a scraper's pattern captures is always text.
ScrapedItems ==
    { [name |-> Some(nm), desc |-> Some(d), id |-> i] :
        nm \in Names, d \in {<<>>, WithKw}, i \in Ids }

FetchOutcomes == {"throw", "bad", "ok"}

\* The answer of the per-channel lookup: it throws, is not ok, has no items, or
\* carries snippet.description and brandingSettings.channel.description.
DetailOutcomes ==
    { [kind |-> k, description |-> <<>>, about |-> <<>>] : k \in {"throw", "bad", "empty"} }
    \cup
    { [kind |-> "ok", description |-> p[1], about |-> p[2]] :
        p \in { <<WithKw, <<>> >>, << <<>>, WithKw>>, <<WithoutKw, WithKw>>,
                <<WithoutKw, <<>> >> } }

\* A video of the video search: snippet.channelId and snippet.channelTitle.
VideoItems == { i \in ApiItems : i.desc = None }

(***************************************************************************)
(* JavaScript idioms.                                                      *)
(***************************************************************************)
\* !v for text, a number, a fraction: undefined, "", 0 and NaN are falsy
FalsyText(o) == o = None \/ ValueOf(o) = <<>>

FalsyNumber(o) == o = None \/ ValueOf(o) = 0

FalsyFraction(o) == o = None \/ ValueOf(o).nan \/ ValueOf(o).num = 0

\* v || d
NumberOr(o, d) == IF FalsyNumber(o) THEN d ELSE ValueOf(o)

FractionOr(o, d) == IF FalsyFraction(o) THEN d ELSE ValueOf(o)

TextOr(o, d) == IF FalsyText(o) THEN d ELSE ValueOf(o)

\* const { x = d } = options
Destructure(o, d) == IF o = None THEN d ELSE ValueOf(o)

\* description && description.toLowerCase().includes(keyword.toLowerCase())
TruthyIncludes(desc, keyword) ==
    /\ IsSome(desc)
    /\ ValueOf(desc) # <<>>
    /\ includes(toLowerCase(ValueOf(desc)), toLowerCase(keyword))

Entry(nm, d, u) == [name |-> nm, description |-> d, url |-> u]

(***************************************************************************)
(* The handler's answers and the values a running source works with.       *)
(***************************************************************************)
Opt == ValueOf(options)

keyword == Opt.keyword

\* c.json({ keyword, count: results.length, results })
Success(res) ==
    Some([status |-> 200, keyword |-> Some(keyword), count |-> Some(Len(res)),
          results |-> Some(res)])

\* c.json({ error: ... }, status)
Failure(status) ==
    Some([status |-> status, keyword |-> None, count |-> None, results |-> None])

Respond(r) == response' = r /\ pc' = "done"

\* One per-item step: the item met, what it pushed, whether it threw.
Step(src, item, pushed, threw) ==
    Some([src |-> src, item |-> item, pushed |-> pushed, threw |-> threw])

\* await setTimeout(ms): one suspension of ms milliseconds
Sleep(ms) == [sleep |-> TRUE, ms |-> ms, src |-> "timer"]

\* the work of one iteration of the loop of source src
Work(src) == [sleep |-> FALSE, ms |-> 0, src |-> src]

Unthrottled(ms, src) == <<Work(src)>>

\* one iteration of a loop that begins with await setTimeout(throttleMs)
Throttled(ms, src) == <<Sleep(ms), Work(src)>>

\* results.push(e) when cond holds
PushIf(res, cond, e) == IF cond THEN Append(res, e) ELSE res

\* A source function is called.
Invoke(src) == calls' = Append(calls, src)

FallsBackAlways(res) == TRUE

FallsBackNever(res) == FALSE

\* if (results.length === 0), and the else of if (apiResults.length > 0) return
FallsBack(res) == Len(res) = 0

(***************************************************************************)
(* POST /api/search and POST /api/extended-search: parsing the body.       *)
(***************************************************************************)
DefaultLimit ==
    CASE platform = "twitter" -> TwitterDefaultLimit
      [] platform = "facebook" -> FacebookDefaultLimit
      [] platform = "youtube" /\ endpoint = "search" -> YouTubeDefaultLimit
      [] OTHER -> ExtendedDefaultLimit

DefaultThrottle ==
    CASE platform = "twitter" -> TwitterDefaultThrottle
      [] platform = "facebook" -> FacebookDefaultThrottle
      [] OTHER -> YouTubeDefaultThrottle

\* if (USE_API && TWITTER_BEARER_TOKEN && ...) in searchTwitterAccounts; the other
\* handlers call their API function first
FirstSource == IF platform = "twitter" /\ ~useApi THEN "nitter" ELSE "api"

FirstPc ==
    CASE platform = "twitter" -> IF useApi THEN "tw_api_fetch" ELSE "nitter_fetch"
      [] platform = "facebook" -> "fb_pages_fetch"
      [] OTHER -> "yt_api_fetch"

\* const options = { keyword, limit: limit || D, throttleMs: throttleMs || D,
\*                   fuzzyThreshold: fuzzyThreshold || 0.7 }
BuildOptions(b) ==
    [keyword |-> ValueOf(b.keyword),
     limit |-> Some(NumberOr(b.limit, DefaultLimit)),
     throttleMs |-> Some(NumberOr(b.throttleMs, DefaultThrottle)),
     fuzzyThreshold |-> Some(FractionOr(b.fuzzyThreshold, DefaultThreshold))]

MissingOnlyWhenUndefined(b) == b.keyword = None

\* if (!keyword)
MissingKeyword(b) == FalsyText(b.keyword)

HandleRequest ==
    /\ pc = "start"
    /\ IF body = None
       THEN Respond(Failure(500)) /\ UNCHANGED <<options, calls>>
       ELSE IF MissingKeyword(ValueOf(body))
            THEN Respond(Failure(400)) /\ UNCHANGED <<options, calls>>
            ELSE /\ options' = Some(BuildOptions(ValueOf(body)))
                 /\ pc' = FirstPc
                 /\ Invoke(FirstSource)
                 /\ UNCHANGED response
    /\ UNCHANGED <<cfgVars, simVars, concVars, results, n, apiResults, channelIds, seen, last,
                   slept, timeline, thresholds, limits, returns>>

(***************************************************************************)
(* Twitter (src/index.ts).  The url of an account is built from its        *)
(* username, so the username stands for the url.                           *)
(***************************************************************************)
\* nameSimilarity >= fuzzyThreshold || usernameSimilarity >= fuzzyThreshold, else
\* description && description.toLowerCase().includes(keyword.toLowerCase())
TwitterRule(name, username, desc, kw, thr) ==
    \/ GreaterEq(calculateSimilarity(name, kw), thr)
    \/ GreaterEq(calculateSimilarity(username, kw), thr)
    \/ TruthyIncludes(desc, kw)

\* searchTwitterAccountsViaAPI hands res back to searchTwitterAccounts:
\* if (apiResults.length > 0) return apiResults, else the Nitter scraper is called
TwApiReturns(res) ==
    /\ apiResults' = Some(res)
    /\ returns' = Append(returns, res)
    /\ IF FallsBack(res)
       THEN /\ pc' = "nitter_fetch" /\ Invoke("nitter") /\ results' = <<>>
            /\ UNCHANGED response
       ELSE Respond(Success(res)) /\ results' = res /\ UNCHANGED calls

\* scrapeTwitterResults hands res back: if (nitterResults.length > 0) return
\* nitterResults, else the direct scraper is called
NitterReturns(res) ==
    /\ returns' = Append(returns, res)
    /\ IF FallsBack(res)
       THEN /\ pc' = "direct_fetch" /\ Invoke("direct") /\ results' = <<>>
            /\ UNCHANGED response
       ELSE Respond(Success(res)) /\ results' = res /\ UNCHANGED calls

\* searchTwitterAccountsViaAPI: the search request; a failure is caught and [] returned
TwApiFetch ==
    /\ pc = "tw_api_fetch"
    /\ \E outcome \in FetchOutcomes :
          IF outcome = "ok"
          THEN /\ pc' = "tw_api_loop" /\ results' = <<>>
               /\ UNCHANGED <<response, calls, returns, apiResults>>
          ELSE TwApiReturns(<<>>)
    /\ limits' = limits \cup {Destructure(Opt.limit, TwitterDefaultLimit)}
    /\ seen' = <<>>
    /\ UNCHANGED <<cfgVars, simVars, concVars, options, n, channelIds, last, slept,
                   timeline, thresholds>>

\* searchTwitterAccountsViaAPI: one user of data.data
TwApiItem ==
    /\ pc = "tw_api_loop" /\ n < MaxItems
    /\ \E item \in ApiItems :
        LET thr == Destructure(Opt.fuzzyThreshold, DefaultThreshold)
        IN  IF item.name = None
            THEN \* calculateSimilarity(undefined, ...) throws; the catch returns []
                 /\ TwApiReturns(<<>>)
                 /\ seen' = <<>>
                 /\ last' = Step("api", item, <<>>, TRUE)
                 /\ UNCHANGED thresholds
            ELSE LET e == Entry(ValueOf(item.name), item.desc, item.id)
                     inc == TwitterRule(ValueOf(item.name), item.id, item.desc, keyword, thr)
                 IN  /\ results' = PushIf(results, inc, e)
                     /\ seen' = PushIf(seen, inc, e)
                     /\ last' = Step("api", item, PushIf(<<>>, inc, e), FALSE)
                     /\ thresholds' = thresholds \cup {thr}
                     /\ UNCHANGED <<pc, response, calls, returns, apiResults>>
    /\ n' = n + 1
    /\ slept' = slept \cup {Destructure(Opt.throttleMs, TwitterDefaultThrottle)}
    /\ timeline' = timeline \o Throttled(Destructure(Opt.throttleMs, TwitterDefaultThrottle), "api")
    /\ UNCHANGED <<cfgVars, simVars, concVars, options, channelIds, limits>>

\* searchTwitterAccountsViaAPI: return results
TwApiReturn ==
    /\ pc = "tw_api_loop"
    /\ TwApiReturns(results)
    /\ last' = None
    /\ UNCHANGED <<cfgVars, simVars, concVars, options, n, channelIds, seen, slept,
                   timeline, thresholds, limits>>

\* scrapeTwitterResults: the Nitter search page; a failure is caught and [] returned
NitterFetch ==
    /\ pc = "nitter_fetch"
    /\ \E outcome \in FetchOutcomes :
          IF outcome = "ok"
          THEN pc' = "nitter_loop" /\ results' = <<>> /\ UNCHANGED <<response, calls,
                                                   returns>>
          ELSE NitterReturns(<<>>)
    /\ seen' = <<>>
    /\ UNCHANGED <<cfgVars, simVars, concVars, options, n, apiResults, channelIds, last,
                   slept, timeline, thresholds, limits>>

\* scrapeTwitterResults: one match of userPattern
NitterItem ==
    /\ pc = "nitter_loop" /\ n < MaxItems
    /\ \E item \in ScrapedItems :
        LET thr == Destructure(Opt.fuzzyThreshold, DefaultThreshold)
            e == Entry(ValueOf(item.name), item.desc, item.id)
            inc == TwitterRule(ValueOf(item.name), item.id, item.desc, keyword, thr)
        IN  /\ results' = PushIf(results, inc, e)
            /\ seen' = PushIf(seen, inc, e)
            /\ last' = Step("nitter", item, PushIf(<<>>, inc, e), FALSE)
            /\ thresholds' = thresholds \cup {thr}
    /\ n' = n + 1
    /\ slept' = slept \cup {Destructure(Opt.throttleMs, TwitterScrapeThrottle)}
    /\ timeline' = timeline \o Throttled(Destructure(Opt.throttleMs, TwitterScrapeThrottle),
                                         "nitter")
    /\ UNCHANGED <<cfgVars, simVars, concVars, options, pc, apiResults, channelIds, calls,
                   returns, limits, response>>

\* scrapeTwitterResults: return results
NitterReturn ==
    /\ pc = "nitter_loop"
    /\ NitterReturns(results)
    /\ last' = None
    /\ UNCHANGED <<cfgVars, simVars, concVars, options, n, apiResults, channelIds, seen,
                   slept, timeline, thresholds, limits>>

\* scrapeDirectTwitterResults: the search page; a failure is caught and [] returned,
\* which the handler answers with
DirectFetch ==
    /\ pc = "direct_fetch"
    /\ \E outcome \in FetchOutcomes :
          IF outcome = "ok"
          THEN pc' = "direct_loop" /\ UNCHANGED <<response, returns>>
          ELSE Respond(Success(<<>>)) /\ returns' = Append(returns, <<>>)
    /\ results' = <<>> /\ seen' = <<>>
    /\ UNCHANGED <<cfgVars, simVars, concVars, options, n, apiResults, channelIds, last,
                   calls, slept, timeline, thresholds, limits>>

\* scrapeDirectTwitterResults: one user of the embedded JSON; user.name || '' and
\* the like turn missing fields into empty text
DirectItem ==
    /\ pc = "direct_loop" /\ n < MaxItems
    /\ \E item \in ApiItems :
        LET thr == Destructure(Opt.fuzzyThreshold, DefaultThreshold)
            name == TextOr(item.name, <<>>)
            description == TextOr(item.desc, <<>>)
            e == Entry(name, Some(description), item.id)
            inc == \/ GreaterEq(calculateSimilarity(name, keyword), thr)
                   \/ GreaterEq(calculateSimilarity(item.id, keyword), thr)
                   \/ includes(toLowerCase(description), toLowerCase(keyword))
        IN  /\ results' = PushIf(results, inc, e)
            /\ seen' = PushIf(seen, inc, e)
            /\ last' = Step("direct", item, PushIf(<<>>, inc, e), FALSE)
            /\ thresholds' = thresholds \cup {thr}
    /\ n' = n + 1
    /\ slept' = slept \cup {Destructure(Opt.throttleMs, TwitterScrapeThrottle)}
    /\ timeline' = timeline \o Throttled(Destructure(Opt.throttleMs, TwitterScrapeThrottle),
                                         "direct")
    /\ UNCHANGED <<cfgVars, simVars, concVars, options, pc, apiResults, channelIds, calls,
                   returns, limits, response>>

\* scrapeDirectTwitterResults returns; the handler answers with its result
DirectReturn ==
    /\ pc = "direct_loop"
    /\ Respond(Success(results))
    /\ returns' = Append(returns, results)
    /\ last' = None
    /\ UNCHANGED <<cfgVars, simVars, concVars, options, results, n, apiResults, channelIds,
                   seen, calls, slept, timeline, thresholds, limits>>

(***************************************************************************)
(* YouTube (src/unnamed/part_000).  The url of a channel is built from its *)
(* id, so the id stands for the url.  (searchYouTubeChannels declares      *)
(* channelUrl twice in one block; the model reads the first as the page    *)
(* url that is pushed and the second as the lookup url that is fetched.)   *)
(***************************************************************************)
HasUrl(res, u) == \E k \in 1..Len(res) : res[k].url = u

PushOverwriting(res, e) ==
    IF HasUrl(res, e.url)
    THEN [k \in 1..Len(res) |-> IF res[k].url = e.url THEN e ELSE res[k]]
    ELSE Append(res, e)

\* if (!results.some((r) => r.url === e.url)) results.push(e)
PushUnlessPresent(res, e) == IF HasUrl(res, e.url) THEN res ELSE Append(res, e)

\* for (const channel of videoChannels) if (!allResults.some(...)) allResults.push(channel)
RECURSIVE MergeInto(_, _)
MergeInto(all, more) ==
    IF more = <<>> THEN all
    ELSE MergeInto(PushUnlessPresent(all, Head(more)), Tail(more))

\* searchYouTubeChannels hands res back: /api/search falls back to the scraper when
\* it is empty, /api/extended-search keeps it as channelResults and goes on to the
\* video search
YtApiReturns(res) ==
    /\ apiResults' = Some(res)
    /\ returns' = Append(returns, res)
    /\ IF endpoint = "extended"
       THEN /\ pc' = "video_fetch" /\ results' = <<>>
            /\ UNCHANGED <<response, calls>>
       ELSE IF FallsBack(res)
            THEN /\ pc' = "yt_scrape_fetch" /\ Invoke("scraper") /\ results' = <<>>
                 /\ UNCHANGED response
            ELSE Respond(Success(res)) /\ results' = res /\ UNCHANGED calls

\* searchYouTubeChannels: the channel search request; a failure is caught and []
\* returned
YtApiFetch ==
    /\ pc = "yt_api_fetch"
    /\ \E outcome \in FetchOutcomes :
          IF outcome = "ok"
          THEN /\ pc' = "yt_api_loop" /\ results' = <<>>
               /\ UNCHANGED <<response, calls, returns, apiResults>>
          ELSE YtApiReturns(<<>>)
    /\ limits' = limits \cup {Destructure(Opt.limit, YouTubeDefaultLimit)}
    /\ seen' = <<>>
    /\ UNCHANGED <<cfgVars, simVars, concVars, options, n, channelIds, last, slept,
                   timeline, thresholds>>

\* searchYouTubeChannels: one item of data.items, with its channel lookup
YtApiItem ==
    /\ pc = "yt_api_loop" /\ n < MaxItems
    /\ \E item \in ApiItems, det \in DetailOutcomes :
        LET thr == Destructure(Opt.fuzzyThreshold, DefaultThreshold)
            ms == Destructure(Opt.throttleMs, YouTubeDefaultThrottle)
        IN  IF item.name = None
            THEN \* calculateSimilarity(undefined, ...) throws; the catch returns []
                 /\ YtApiReturns(<<>>)
                 /\ seen' = <<>>
                 /\ last' = Step("api", item, <<>>, TRUE)
                 /\ timeline' = timeline \o Throttled(ms, "api")
                 /\ UNCHANGED thresholds
            ELSE LET title == ValueOf(item.name)
                     e1 == Entry(title, item.desc, item.id)
                     inc == \/ GreaterEq(calculateSimilarity(title, keyword), thr)
                            \/ TruthyIncludes(item.desc, keyword)
                     r1 == PushIf(results, inc, e1)
                     enrich == /\ det.kind = "ok"
                               /\ \/ includes(toLowerCase(det.description),
                                              toLowerCase(keyword))
                                  \/ includes(toLowerCase(det.about), toLowerCase(keyword))
                     e2 == Entry(title, Some(TextOr(Some(det.description), det.about)),
                                 item.id)
                     r2 == IF enrich THEN PushUnlessPresent(r1, e2) ELSE r1
                 IN  /\ results' = r2
                     /\ seen' = PushIf(PushIf(seen, inc, e1), enrich, e2)
                     /\ last' = Step("api", item, SubSeq(r2, Len(results) + 1, Len(r2)),
                                     FALSE)
                     /\ thresholds' = thresholds \cup {thr}
                     \* the loop suspends again after the channel lookup
                     /\ timeline' = timeline \o Throttled(ms, "api") \o <<Sleep(ms)>>
                     /\ UNCHANGED <<pc, response, calls, returns, apiResults>>
    /\ n' = n + 1
    /\ slept' = slept \cup {Destructure(Opt.throttleMs, YouTubeDefaultThrottle)}
    /\ UNCHANGED <<cfgVars, simVars, concVars, options, channelIds, limits>>

\* searchYouTubeChannels: return results
YtApiReturn ==
    /\ pc = "yt_api_loop"
    /\ YtApiReturns(results)
    /\ last' = None
    /\ UNCHANGED <<cfgVars, simVars, concVars, options, n, channelIds, seen, slept,
                   timeline, thresholds, limits>>

\* scrapeYouTubeResults(keyword, options.throttleMs): the results page; a failure
\* is caught and [] returned, which the handler answers with
YtScrapeFetch ==
    /\ pc = "yt_scrape_fetch"
    /\ \E outcome \in FetchOutcomes :
          IF outcome = "ok"
          THEN pc' = "yt_scrape_loop" /\ UNCHANGED <<response, returns>>
          ELSE Respond(Success(<<>>)) /\ returns' = Append(returns, <<>>)
    /\ results' = <<>> /\ seen' = <<>>
    /\ UNCHANGED <<cfgVars, simVars, concVars, options, n, apiResults, channelIds, last,
                   calls, slept, timeline, thresholds, limits>>

\* scrapeYouTubeResults: one handle of the results page and its channel page
YtScrapeItem ==
    /\ pc = "yt_scrape_loop" /\ n < MaxItems
    /\ \E item \in ScrapedItems, page \in FetchOutcomes :
        LET e == Entry(ValueOf(item.name), item.desc, item.id)
            inc == /\ page = "ok"
                   /\ \/ GreaterEq(calculateSimilarity(ValueOf(item.name), keyword),
                                   DefaultThreshold)
                      \/ includes(toLowerCase(ValueOf(item.desc)), toLowerCase(keyword))
        IN  /\ results' = PushIf(results, inc, e)
            /\ seen' = PushIf(seen, inc, e)
            \* name and description come from the channel page: without it only
            \* the handle is known
            /\ last' = Step("scraper",
                            IF page = "ok" THEN item
                            ELSE [name |-> None, desc |-> None, id |-> item.id],
                            PushIf(<<>>, inc, e), page = "throw")
            /\ thresholds' = IF page = "ok" THEN thresholds \cup {DefaultThreshold}
                             ELSE thresholds
    /\ n' = n + 1
    /\ slept' = slept \cup {Destructure(Opt.throttleMs, YouTubeScrapeThrottle)}
    /\ timeline' = LET ms == Destructure(Opt.throttleMs, YouTubeScrapeThrottle)
                   IN  timeline \o Throttled(ms, "scraper") \o <<Sleep(ms)>>
    /\ UNCHANGED <<cfgVars, simVars, concVars, options, pc, apiResults, channelIds, calls,
                   returns, limits, response>>

\* scrapeYouTubeResults returns; the handler answers with its result
YtScrapeReturn ==
    /\ pc = "yt_scrape_loop"
    /\ Respond(Success(results))
    /\ returns' = Append(returns, results)
    /\ last' = None
    /\ UNCHANGED <<cfgVars, simVars, concVars, options, results, n, apiResults, channelIds,
                   seen, calls, slept, timeline, thresholds, limits>>

\* /api/extended-search: the video search; fetch is awaited in the handler's try,
\* so a transport error reaches the handler's catch; a bad status leaves
\* videoChannels empty
VideoFetch ==
    /\ pc = "video_fetch"
    /\ \E outcome \in FetchOutcomes :
          CASE outcome = "ok" -> pc' = "video_loop" /\ UNCHANGED response
            [] outcome = "bad" -> Respond(Success(MergeInto(ValueOf(apiResults), <<>>)))
            [] OTHER -> Respond(Failure(500))
    /\ Invoke("video")
    /\ limits' = limits \cup {ValueOf(Opt.limit)}
    /\ results' = <<>> /\ channelIds' = {}
    /\ UNCHANGED <<cfgVars, simVars, concVars, options, n, apiResults, seen, last, slept,
                   timeline, thresholds, returns>>

\* /api/extended-search: one video of videoData.items
VideoItem ==
    /\ pc = "video_loop" /\ n < MaxItems
    /\ \E item \in VideoItems :
        IF item.id \in channelIds
        THEN /\ last' = Step("video", item, <<>>, FALSE)
             /\ slept' = slept \cup {ValueOf(Opt.throttleMs)}
             /\ timeline' = timeline \o <<Work("video"), Sleep(ValueOf(Opt.throttleMs))>>
             /\ UNCHANGED <<pc, response, results, seen, channelIds, thresholds>>
        ELSE IF item.name = None
             THEN \* calculateSimilarity(undefined, ...) throws into the handler's catch
                  /\ Respond(Failure(500))
                  /\ last' = Step("video", item, <<>>, TRUE)
                  /\ channelIds' = channelIds \cup {item.id}
                  /\ timeline' = Append(timeline, Work("video"))
                  /\ UNCHANGED <<results, seen, thresholds, slept>>
             ELSE LET thr == ValueOf(Opt.fuzzyThreshold)
                      e == Entry(ValueOf(item.name), None, item.id)
                      inc == GreaterEq(calculateSimilarity(ValueOf(item.name), keyword), thr)
                  IN  /\ results' = PushIf(results, inc, e)
                      /\ seen' = PushIf(seen, inc, e)
                      /\ last' = Step("video", item, PushIf(<<>>, inc, e), FALSE)
                      /\ channelIds' = channelIds \cup {item.id}
                      /\ thresholds' = thresholds \cup {thr}
                      /\ slept' = slept \cup {ValueOf(Opt.throttleMs)}
                      /\ timeline' = timeline \o <<Work("video"), Sleep(ValueOf(Opt.throttleMs))>>
                      /\ UNCHANGED <<pc, response>>
    /\ n' = n + 1
    /\ UNCHANGED <<cfgVars, simVars, concVars, options, apiResults, calls, returns, limits>>

\* /api/extended-search: combine channelResults and videoChannels, and answer
VideoReturn ==
    /\ pc = "video_loop"
    /\ Respond(Success(MergeInto(ValueOf(apiResults), results)))
    /\ last' = None
    /\ UNCHANGED <<cfgVars, simVars, concVars, options, results, n, apiResults, channelIds,
                   seen, calls, returns, slept, timeline, thresholds, limits>>

(***************************************************************************)
(* Facebook (src/unnamed/part_001).  The url of a candidate is the link    *)
(* the Graph API or the page markup gives; the id stands for it.           *)
(***************************************************************************)
\* searchFacebookAccounts hands res back; the handler falls back to the scraper
\* when it is empty
FbApiReturns(res) ==
    /\ apiResults' = Some(res)
    /\ returns' = Append(returns, res)
    /\ IF FallsBack(res)
       THEN /\ pc' = "fb_scrape_fetch" /\ Invoke("scraper") /\ results' = <<>>
            /\ UNCHANGED response
       ELSE Respond(Success(res)) /\ results' = res /\ UNCHANGED calls

\* searchFacebookAccounts: the page search request; a failure is caught and []
\* returned
FbPagesFetch ==
    /\ pc = "fb_pages_fetch"
    /\ \E outcome \in FetchOutcomes :
          IF outcome = "ok"
          THEN /\ pc' = "fb_pages_loop" /\ results' = <<>>
               /\ UNCHANGED <<response, calls, returns, apiResults>>
          ELSE FbApiReturns(<<>>)
    /\ limits' = limits \cup {Destructure(Opt.limit, FacebookDefaultLimit)}
    /\ seen' = <<>>
    /\ UNCHANGED <<cfgVars, simVars, concVars, options, n, channelIds, last, slept,
                   timeline, thresholds>>

\* searchFacebookAccounts: one page of data.data
FbPagesItem ==
    /\ pc = "fb_pages_loop" /\ n < MaxItems
    /\ \E item \in ApiItems :
        LET thr == Destructure(Opt.fuzzyThreshold, DefaultThreshold)
        IN  IF item.name = None
            THEN \* calculateSimilarity(undefined, ...) throws; the catch returns []
                 /\ FbApiReturns(<<>>)
                 /\ seen' = <<>>
                 /\ last' = Step("api", item, <<>>, TRUE)
                 /\ UNCHANGED thresholds
            ELSE LET e == Entry(ValueOf(item.name), item.desc, item.id)
                     inc == GreaterEq(calculateSimilarity(ValueOf(item.name), keyword), thr)
                 IN  /\ results' = PushIf(results, inc, e)
                     /\ seen' = PushIf(seen, inc, e)
                     /\ last' = Step("api", item, PushIf(<<>>, inc, e), FALSE)
                     /\ thresholds' = thresholds \cup {thr}
                     /\ UNCHANGED <<pc, response, calls, returns, apiResults>>
    /\ n' = n + 1
    /\ slept' = slept \cup {Destructure(Opt.throttleMs, FacebookDefaultThrottle)}
    /\ timeline' = timeline \o Throttled(Destructure(Opt.throttleMs, FacebookDefaultThrottle), "api")
    /\ UNCHANGED <<cfgVars, simVars, concVars, options, channelIds, limits>>

\* searchFacebookAccounts: the page list is done and the user search is requested;
\* a transport error reaches the catch, which returns []; a bad status is only
\* logged and the page results are returned
FbUsersFetch ==
    /\ pc = "fb_pages_loop"
    /\ \E outcome \in FetchOutcomes :
          CASE outcome = "ok" -> /\ pc' = "fb_users_loop"
                                 /\ UNCHANGED <<results, response, seen, calls, returns,
                                                apiResults>>
            [] outcome = "bad" -> FbApiReturns(results) /\ UNCHANGED seen
            [] OTHER -> FbApiReturns(<<>>) /\ seen' = <<>>
    /\ limits' = limits \cup {Destructure(Opt.limit, FacebookDefaultLimit)}
    /\ last' = None
    /\ UNCHANGED <<cfgVars, simVars, concVars, options, n, channelIds, slept, timeline,
                   thresholds>>

\* searchFacebookAccounts: one user of userData.data
FbUsersItem ==
    /\ pc = "fb_users_loop" /\ n < MaxItems
    /\ \E item \in VideoItems :
        LET thr == Destructure(Opt.fuzzyThreshold, DefaultThreshold)
        IN  IF item.name = None
            THEN \* calculateSimilarity(undefined, ...) throws; the catch returns []
                 /\ FbApiReturns(<<>>)
                 /\ seen' = <<>>
                 /\ last' = Step("api", item, <<>>, TRUE)
                 /\ UNCHANGED thresholds
            ELSE LET e == Entry(ValueOf(item.name), None, item.id)
                     inc == GreaterEq(calculateSimilarity(ValueOf(item.name), keyword), thr)
                 IN  /\ results' = PushIf(results, inc, e)
                     /\ seen' = PushIf(seen, inc, e)
                     /\ last' = Step("api", item, PushIf(<<>>, inc, e), FALSE)
                     /\ thresholds' = thresholds \cup {thr}
                     /\ UNCHANGED <<pc, response, calls, returns, apiResults>>
    /\ n' = n + 1
    /\ slept' = slept \cup {Destructure(Opt.throttleMs, FacebookDefaultThrottle)}
    /\ timeline' = timeline \o Throttled(Destructure(Opt.throttleMs, FacebookDefaultThrottle), "api")
    /\ UNCHANGED <<cfgVars, simVars, concVars, options, channelIds, limits>>

\* searchFacebookAccounts: return results
FbUsersReturn ==
    /\ pc = "fb_users_loop"
    /\ FbApiReturns(results)
    /\ last' = None
    /\ UNCHANGED <<cfgVars, simVars, concVars, options, n, channelIds, seen, slept,
                   timeline, thresholds, limits>>

\* scrapeFacebookResults(keyword, options.throttleMs): the search page; a failure
\* is caught and [] returned, which the handler answers with
FbScrapeFetch ==
    /\ pc = "fb_scrape_fetch"
    /\ \E outcome \in FetchOutcomes :
          IF outcome = "ok"
          THEN pc' = "fb_scrape_loop" /\ UNCHANGED <<response, returns>>
          ELSE Respond(Success(<<>>)) /\ returns' = Append(returns, <<>>)
    /\ results' = <<>> /\ seen' = <<>>
    /\ UNCHANGED <<cfgVars, simVars, concVars, options, n, apiResults, channelIds, last,
                   calls, slept, timeline, thresholds, limits>>

\* scrapeFacebookResults: one match of pageRegex
FbScrapeItem ==
    /\ pc = "fb_scrape_loop" /\ n < MaxItems
    /\ \E item \in {i \in ScrapedItems : i.desc = Some(<<>>)} :
        LET e == Entry(ValueOf(item.name), None, item.id)
            inc == GreaterEq(calculateSimilarity(ValueOf(item.name), keyword),
                             DefaultThreshold)
        IN  /\ results' = PushIf(results, inc, e)
            /\ seen' = PushIf(seen, inc, e)
            /\ last' = Step("scraper", item, PushIf(<<>>, inc, e), FALSE)
    /\ thresholds' = thresholds \cup {DefaultThreshold}
    /\ n' = n + 1
    /\ slept' = slept \cup {Destructure(Opt.throttleMs, FacebookScrapeThrottle)}
    /\ timeline' = timeline \o Throttled(Destructure(Opt.throttleMs, FacebookScrapeThrottle),
                                         "scraper")
    /\ UNCHANGED <<cfgVars, simVars, concVars, options, pc, apiResults, channelIds, calls,
                   returns, limits, response>>

\* scrapeFacebookResults returns; the handler answers with its result
FbScrapeReturn ==
    /\ pc = "fb_scrape_loop"
    /\ Respond(Success(results))
    /\ returns' = Append(returns, results)
    /\ last' = None
    /\ UNCHANGED <<cfgVars, simVars, concVars, options, results, n, apiResults, channelIds,
                   seen, calls, slept, timeline, thresholds, limits>>

(***************************************************************************)
(* The specification of the services.                                      *)
(***************************************************************************)
Endpoints ==
    { <<"twitter", "search", TRUE>>, <<"twitter", "search", FALSE>>,
      <<"youtube", "search", TRUE>>, <<"youtube", "extended", TRUE>>,
      <<"facebook", "search", TRUE>> }

Init ==
    /\ \E e \in Endpoints : platform = e[1] /\ endpoint = e[2] /\ useApi = e[3]
    /\ body \in Bodies
    /\ options = None
    /\ pc = "start"
    /\ results = <<>>
    /\ n = 0
    /\ apiResults = None
    /\ channelIds = {}
    /\ seen = <<>>
    /\ last = None
    /\ calls = <<>>
    /\ returns = <<>>
    /\ slept = {}
    /\ timeline = <<>>
    /\ thresholds = {}
    /\ limits = {}
    /\ response = None
    /\ str1 = <<>> /\ str2 = <<>> /\ simResult = None /\ simSwapped = None
    /\ upstream = <<>> /\ cpc = <<>> /\ cidx = <<>> /\ heap = <<>> /\ replies = <<>>

Next ==
    \/ HandleRequest
    \/ TwApiFetch \/ TwApiItem \/ TwApiReturn
    \/ NitterFetch \/ NitterItem \/ NitterReturn
    \/ DirectFetch \/ DirectItem \/ DirectReturn
    \/ YtApiFetch \/ YtApiItem \/ YtApiReturn
    \/ YtScrapeFetch \/ YtScrapeItem \/ YtScrapeReturn
    \/ VideoFetch \/ VideoItem \/ VideoReturn
    \/ FbPagesFetch \/ FbPagesItem \/ FbUsersFetch \/ FbUsersItem \/ FbUsersReturn
    \/ FbScrapeFetch \/ FbScrapeItem \/ FbScrapeReturn

Spec == Init /\ [][Next]_vars

(***************************************************************************)
(* Claims about the services (checked under Spec).                         *)
(***************************************************************************)
Answered == response # None

Succeeded == Answered /\ ValueOf(response).status = 200

Returned == ValueOf(ValueOf(response).results)

ScraperInvoked == \E k \in 1..Len(calls) : calls[k] \in {"nitter", "direct", "scraper"}

ApiInvoked == \E k \in 1..Len(calls) : calls[k] = "api"

\* C1 as claimed: the results of a successful response never hold two candidates
\* with the same url.
C1_NoDuplicateUrls ==
    Succeeded =>
        \A i, j \in 1..Len(Returned) : i # j => Returned[i].url # Returned[j].url

\* C2 as claimed: a failing upstream call is never surfaced as an error, so a
\* request whose body parses is answered with a 5xx only when an item it met was
\* malformed, never because a call failed.
C2_UpstreamFailureNeverSurfaces ==
    (Answered /\ body # None /\ ValueOf(response).status >= 500) =>
        (last # None /\ ValueOf(last).threw)

C4_ApiInclusionRule ==
    (last # None /\ ValueOf(last).src = "api" /\ ~ValueOf(last).threw) =>
        LET it == ValueOf(last).item
            nm == ValueOf(it.name)
            thr == ValueOf(Opt.fuzzyThreshold)
            meets == \/ GreaterEq(calculateSimilarity(nm, keyword), thr)
                     \/ platform = "twitter"
                          /\ GreaterEq(calculateSimilarity(it.id, keyword), thr)
                     \/ it.desc # None
                          /\ includes(toLowerCase(ValueOf(it.desc)), toLowerCase(keyword))
            pushed == ValueOf(last).pushed
            tested == \E k \in 1..Len(pushed) : pushed[k] = Entry(nm, it.desc, it.id)
        IN  tested <=> meets

\* The entries of a sequence that are the first with their url, in order.
RECURSIVE FirstPerUrl(_)
FirstPerUrl(entries) ==
    IF entries = <<>> THEN <<>>
    ELSE LET front == FirstPerUrl(SubSeq(entries, 1, Len(entries) - 1))
             e == entries[Len(entries)]
         IN  IF \E k \in 1..Len(front) : front[k].url = e.url THEN front
             ELSE Append(front, e)

KeywordAbsentOrEmpty ==
    body # None /\ ValueOf(body).keyword \in {None, Some(<<>>)}

\* C6: a body without a keyword (absent or "") gets a 4xx error object and no
\* source is called, nothing is sent upstream and nothing is waited for; a success
\* response carries the request's keyword, the results and their number as count.
C6_KeywordRequired ==
    /\ KeywordAbsentOrEmpty =>
          /\ calls = <<>> /\ limits = {} /\ slept = {} /\ thresholds = {}
          /\ Answered => /\ ValueOf(response).status \in 400..499
                         /\ ValueOf(response).results = None
    /\ (Answered /\ ValueOf(response).status \in 400..499) => KeywordAbsentOrEmpty
    /\ Succeeded =>
          /\ ValueOf(response).keyword = ValueOf(body).keyword
          /\ ValueOf(response).count = Some(Len(Returned))

\* C6 witness: a body whose keyword is the empty text has been answered
C6_Witness ==
    /\ body # None /\ ValueOf(body).keyword = Some(<<>>)
    /\ Answered /\ ValueOf(response).status = 400

\* C7 as claimed: limit, throttle interval and threshold take their default only
\* when absent from the body; a supplied value, 0 included, is what the handler
\* hands on and what every source sends, waits for and compares with.
C7_DefaultsOnlyWhenAbsent ==
    (body # None /\ options # None) =>
        LET b == ValueOf(body)
            limit == Destructure(b.limit, DefaultLimit)
            throttleMs == Destructure(b.throttleMs, DefaultThrottle)
            fuzzyThreshold == Destructure(b.fuzzyThreshold, DefaultThreshold)
        IN  /\ Opt.limit = Some(limit)
            /\ Opt.throttleMs = Some(throttleMs)
            /\ Opt.fuzzyThreshold = Some(fuzzyThreshold)
            /\ limits \subseteq {limit}
            /\ slept \subseteq {throttleMs}
            /\ thresholds \subseteq {fuzzyThreshold}

\* The sources of a /api/search request in priority order, the API leading it only
\* where it is enabled and has a credential.
Chain ==
    CASE platform = "twitter" /\ useApi -> <<"api", "nitter", "direct">>
      [] platform = "twitter" /\ ~useApi -> <<"nitter", "direct">>
      [] OTHER -> <<"api", "scraper">>

\* the first source that returned a non-empty result, 0 when there is none
FirstYield ==
    LET ks == {k \in 1..Len(returns) : returns[k] # <<>>}
    IN  IF ks = {} THEN 0 ELSE CHOOSE k \in ks : \A j \in ks : k <= j

\* a later source is invoked only once every earlier one has returned nothing, no
\* source is invoked twice, and the answer is the first non-empty result, or empty
\* once every source of the chain has returned nothing
OneAtATime ==
    /\ \A k \in 2..Len(calls) :
          \A j \in 1..(k - 1) : j <= Len(returns) /\ returns[j] = <<>>
    /\ \A j, k \in 1..Len(calls) : calls[j] = calls[k] => j = k
    /\ Succeeded =>
          /\ Len(returns) = Len(calls)
          /\ IF FirstYield = 0
             THEN Returned = <<>> /\ calls = Chain
             ELSE Returned = returns[FirstYield]

\* C13 as claimed: the first source invoked is always the official API, the sources
\* follow the priority order API, Nitter, direct (API, scraper elsewhere), one at a
\* time, each at most once, and the first non-empty result is the answer.
C13_ApiAlwaysFirst ==
    (endpoint = "search" /\ calls # <<>>) =>
        /\ calls[1] = "api"
        /\ calls = SubSeq(IF platform = "twitter" THEN <<"api", "nitter", "direct">>
                          ELSE <<"api", "scraper">>, 1, Len(calls))
        /\ OneAtATime

\* C13 amended: the sources invoked are a prefix of the priority order, which the
\* official API leads only when it is enabled and has a credential (Twitter with
\* the API off starts at the Nitter scraper); one at a time, each at most once, and
\* the first non-empty result is the answer.
C13_SourcesInPriorityOrder ==
    (endpoint = "search" /\ calls # <<>>) =>
        /\ Len(calls) <= Len(Chain)
        /\ calls = SubSeq(Chain, 1, Len(calls))
        /\ OneAtATime

\* C13 witness: a Twitter search whose API and Nitter scraper returned nothing and
\* whose direct scraper yielded the answer
C13_Witness ==
    /\ platform = "twitter"
    /\ calls = <<"api", "nitter", "direct">>
    /\ Succeeded /\ Returned # <<>>
    /\ returns = <<<<>>, <<>>, Returned>>

\* What the API step of the request's platform would do with a candidate of this
\* name, handle and description under the request's threshold.
ApiStepIncludes(name, handle, desc) ==
    LET thr == ValueOf(Opt.fuzzyThreshold)
    IN  IF platform = "twitter"
        THEN TwitterRule(name, handle, desc, keyword, thr)
        ELSE \/ GreaterEq(calculateSimilarity(name, keyword), thr)
             \/ TruthyIncludes(desc, keyword)

ScraperStep ==
    /\ last # None
    /\ ValueOf(last).src \in {"nitter", "direct", "scraper"}
    /\ ~ValueOf(last).threw
    /\ ValueOf(last).src = "scraper" => ValueOf(last).item.name # None

\* C14 as claimed: a scraper includes an extracted name/description pair exactly
\* when the API step of the same request would include it: similarity at or above
\* the request's threshold, or the description containing the keyword.
C14_ScrapersApplyApiRule ==
    ScraperStep =>
        LET it == ValueOf(last).item
        IN  ValueOf(last).pushed # <<>>
                <=> ApiStepIncludes(TextOr(it.name, <<>>), it.id, it.desc)

\* every entry of res is an entry of all
Within(res, all) == \A k \in 1..Len(res) : \E j \in 1..Len(all) : all[j] = res[k]

\* C15 as claimed: whatever a source has already included stays in its local
\* results while it runs and is part of what it returns, whether it returns normally
\* or after a failed lookup, a malformed candidate or a failed secondary query.
C15_PartialResultsReturned ==
    [][IF Len(returns') > Len(returns)
       THEN Within(results, returns'[Len(returns')])
       ELSE calls' = calls => Within(results, results')]_vars

\* the positions of the timeline that are per-item work of a source function (the
\* API step or a scraper; the video loop of /api/extended-search is handler code)
WorkAt == {k \in 1..Len(timeline) : ~timeline[k].sleep /\ timeline[k].src # "video"}

Alphabet == {"a", "b", "A"}

Strs == SeqsUpTo(Alphabet, MaxStrLen)

Kitten == <<"k", "i", "t", "t", "e", "n">>

Sitting == <<"s", "i", "t", "t", "i", "n", "g">>

SimInit ==
    /\ platform = "twitter" /\ endpoint = "search" /\ useApi = FALSE
    /\ body = None
    /\ options = None
    /\ pc = "done"
    /\ results = <<>>
    /\ n = 0
    /\ apiResults = None
    /\ channelIds = {}
    /\ seen = <<>>
    /\ last = None
    /\ calls = <<>>
    /\ returns = <<>>
    /\ slept = {}
    /\ timeline = <<>>
    /\ thresholds = {}
    /\ limits = {}
    /\ response = None
    /\ \/ str1 \in Strs /\ str2 \in Strs
       \/ str1 = Kitten /\ str2 = Sitting
    /\ simResult = None
    /\ simSwapped = None
    /\ upstream = <<>> /\ cpc = <<>> /\ cidx = <<>> /\ heap = <<>> /\ replies = <<>>

CallSimilarity ==
    /\ simResult = None
    /\ simResult' = Some(calculateSimilarity(str1, str2))
    /\ UNCHANGED <<cfgVars, histVars, concVars, options, pc, results, n, apiResults,
                   channelIds, response, str1, str2, simSwapped>>

\* the same call with the two arguments exchanged
CallSwapped ==
    /\ simSwapped = None
    /\ simSwapped' = Some(calculateSimilarity(str2, str1))
    /\ UNCHANGED <<cfgVars, histVars, concVars, options, pc, results, n, apiResults,
                   channelIds, response, str1, str2, simResult>>

SimNext == CallSimilarity \/ CallSwapped

SimSpec == SimInit /\ [][SimNext]_vars

(***************************************************************************)
(* Claims about calculateSimilarity (checked under SimSpec).               *)
(***************************************************************************)
\* The edit distance as the claim defines it, without the matrix: the least number
\* of single-character insertions, deletions and substitutions that turn one text
\* into the other, found by a breadth-first search over the lower-case texts.
LowerStrs == SeqsUpTo({toLowerChar(c) : c \in Alphabet}, MaxStrLen)

OneEdit(s) ==
    { t \in LowerStrs :
        \/ /\ Len(t) = Len(s)
           /\ Cardinality({k \in 1..Len(s) : s[k] # t[k]}) = 1
        \/ /\ Len(t) = Len(s) + 1
           /\ \E k \in 1..Len(t) : s = SubSeq(t, 1, k - 1) \o SubSeq(t, k + 1, Len(t))
        \/ /\ Len(t) = Len(s) - 1
           /\ \E k \in 1..Len(s) : t = SubSeq(s, 1, k - 1) \o SubSeq(s, k + 1, Len(s)) }

RECURSIVE EditsFrom(_, _, _, _)
EditsFrom(frontier, visited, k, dist) ==
    IF frontier = {} THEN dist
    ELSE LET new == (UNION {OneEdit(s) : s \in frontier}) \ visited
         IN  EditsFrom(new, visited \cup new, k + 1, dist @@ [t \in new |-> k + 1])

MinEdits == [s \in LowerStrs |-> EditsFrom({s}, {s}, 0, [t \in {s} |-> 0])]

Called == simResult # None

\* C8: for texts that are not both empty, calculateSimilarity(a, b) is
\* 1 - d / max(len(a), len(b)) with d the least number of single-character edits
\* between the lower-cased texts; "kitten" and "sitting" give 1 - 3/7.
C8_SimilarityIsLevenshtein ==
    (Called /\ ~(str1 = <<>> /\ str2 = <<>>)) =>
        LET maxLen == Max2(Len(str1), Len(str2))
            d == IF str1 = Kitten /\ str2 = Sitting THEN 3
                 ELSE MinEdits[toLowerCase(str1)][toLowerCase(str2)]
        IN  ValueOf(simResult) = Frac(maxLen - d, maxLen)

\* C8 witness: a call whose texts differ in case and need a substitution and an
\* insertion, and the call on "kitten" and "sitting"
C8_Witness ==
    /\ Called
    /\ \/ str1 = <<"A", "b">> /\ str2 = <<"a", "a", "b">>
       \/ str1 = Kitten /\ str2 = Sitting

\* C9 as claimed: every call, empty texts included, returns a defined fraction in
\* [0,1], the distance being between 0 and the longer length.
C9_AlwaysFractionInUnitInterval ==
    Called =>
        /\ ~ValueOf(simResult).nan
        /\ ValueOf(simResult).den > 0
        /\ 0 <= ValueOf(simResult).num
        /\ ValueOf(simResult).num <= ValueOf(simResult).den

\* C10 as claimed: calculateSimilarity("", "") is defined and equals 1.0.
C10_EmptyPairIsOne ==
    (Called /\ str1 = <<>> /\ str2 = <<>>) =>
        /\ ~ValueOf(simResult).nan
        /\ ValueOf(simResult).den > 0
        /\ ValueOf(simResult).num = ValueOf(simResult).den

\* a result that is the number 1.0
IsOne(sim) == ~sim.nan /\ sim.den > 0 /\ sim.num = sim.den

\* C11 as claimed: for all texts, the empty ones included, the result is 1.0
\* exactly when the lower-cased texts are identical.
C11_OneIffEqualIgnoringCase ==
    Called => (IsOne(ValueOf(simResult)) <=> toLowerCase(str1) = toLowerCase(str2))

\* C11 apart from the empty pair: with at least one text non-empty the result is
\* 1.0 exactly when the lower-cased texts are identical.
C11_HoldsUnlessBothEmpty ==
    (Called /\ ~(str1 = <<>> /\ str2 = <<>>)) =>
        (IsOne(ValueOf(simResult)) <=> toLowerCase(str1) = toLowerCase(str2))

\* the two results are the same value: both NaN, or equal as fractions
SameValue(x, y) ==
    \/ x.nan /\ y.nan
    \/ ~x.nan /\ ~y.nan /\ x.num * y.den = y.num * x.den

BothCalled == simResult # None /\ simSwapped # None

Requests == {1, 2}

\* the keyword of each request
ConcKeywords == <<Kw, <<"c", "d">> >>

\* what a page can list: one account matching each keyword
ConcItems ==
    { [name |-> Some(<<"A", "b">>), desc |-> Some(<<>>), id |-> <<"a", "b">>],
      [name |-> Some(<<"c", "d">>), desc |-> Some(<<>>), id |-> <<"c", "d">>] }

\* an upstream answer: None for a failed fetch, else the matches of the page
NitterAnswers == {None} \cup {Some(pg) : pg \in SeqsUpTo(ConcItems, MaxItems)}

DirectAnswers == {None} \cup {Some(<<i>>) : i \in ConcItems}

SharedArray(r) == 1

\* const results: ImpersonatingAccount[] = [] is local to the call: the array a
\* request's scraper pushes to is its own
OwnArray(r) == r

\* scrapeTwitterResults: the test and the push for one match
NitterPush(res, item, kw) ==
    PushIf(res,
           TwitterRule(ValueOf(item.name), item.id, item.desc, kw, DefaultThreshold),
           Entry(ValueOf(item.name), item.desc, item.id))

\* scrapeDirectTwitterResults: the test and the push for one user
DirectPush(res, item, kw) ==
    LET name == TextOr(item.name, <<>>)
        description == TextOr(item.desc, <<>>)
    IN  PushIf(res,
               \/ GreaterEq(calculateSimilarity(name, kw), DefaultThreshold)
               \/ GreaterEq(calculateSimilarity(item.id, kw), DefaultThreshold)
               \/ includes(toLowerCase(description), toLowerCase(kw)),
               Entry(name, Some(description), item.id))

ConcInit ==
    /\ platform = "twitter" /\ endpoint = "search" /\ useApi = FALSE
    /\ body = None
    /\ options = None
    /\ pc = "done"
    /\ results = <<>>
    /\ n = 0
    /\ apiResults = None
    /\ channelIds = {}
    /\ seen = <<>>
    /\ last = None
    /\ calls = <<>>
    /\ returns = <<>>
    /\ slept = {}
    /\ timeline = <<>>
    /\ thresholds = {}
    /\ limits = {}
    /\ response = None
    /\ str1 = <<>> /\ str2 = <<>> /\ simResult = None /\ simSwapped = None
    /\ upstream \in [Requests -> [nitter : NitterAnswers, direct : DirectAnswers]]
    /\ cpc = [r \in Requests |-> "start"]
    /\ cidx = [r \in Requests |-> 0]
    /\ heap = [a \in Requests |-> <<>>]
    /\ replies = [r \in Requests |-> None]

ConcUnchanged ==
    UNCHANGED <<cfgVars, simVars, histVars, options, pc, results, n, apiResults,
                channelIds, response, upstream>>

\* the handler answers request r with res
ConcReply(r, res) ==
    /\ replies' = [replies EXCEPT ![r] = Some(res)]
    /\ cpc' = [cpc EXCEPT ![r] = "done"]
    /\ UNCHANGED <<cidx, heap>>

\* scrapeTwitterResults returned res to searchTwitterAccounts: a non-empty result is
\* the answer, else scrapeDirectTwitterResults is called and awaits its fetch
ConcNitterReturns(r, res) ==
    IF FallsBack(res)
    THEN /\ heap' = [heap EXCEPT ![OwnArray(r)] = <<>>]
         /\ cpc' = [cpc EXCEPT ![r] = "direct_fetch"]
         /\ cidx' = [cidx EXCEPT ![r] = 0]
         /\ UNCHANGED replies
    ELSE ConcReply(r, res)

\* the handler of request r runs up to the fetch of the Nitter page
ConcStart(r) ==
    /\ cpc[r] = "start"
    /\ heap' = [heap EXCEPT ![OwnArray(r)] = <<>>]
    /\ cpc' = [cpc EXCEPT ![r] = "nitter_fetch"]
    /\ UNCHANGED <<cidx, replies>>
    /\ ConcUnchanged

\* the fetch of request r settles: a failure is caught and [] returned; a page
\* without a match returns the empty results; else the loop awaits its first timer
ConcFetched(r) ==
    /\ cpc[r] \in {"nitter_fetch", "direct_fetch"}
    /\ LET src == IF cpc[r] = "nitter_fetch" THEN "nitter" ELSE "direct"
           answer == upstream[r][src]
       IN  IF answer # None /\ ValueOf(answer) # <<>>
           THEN /\ cpc' = [cpc EXCEPT ![r] = src \o "_timer"]
                /\ UNCHANGED <<cidx, heap, replies>>
           ELSE LET res == IF answer = None THEN <<>> ELSE heap[OwnArray(r)]
                IN  IF src = "nitter" THEN ConcNitterReturns(r, res)
                    ELSE ConcReply(r, res)
    /\ ConcUnchanged

\* the timer of request r fires: the match is tested and pushed, then the loop
\* awaits the next timer or the function returns its results
ConcTimer(r) ==
    /\ cpc[r] \in {"nitter_timer", "direct_timer"}
    /\ LET src == IF cpc[r] = "nitter_timer" THEN "nitter" ELSE "direct"
           page == ValueOf(upstream[r][src])
           item == page[cidx[r] + 1]
           arr == IF src = "nitter"
                  THEN NitterPush(heap[OwnArray(r)], item, ConcKeywords[r])
                  ELSE DirectPush(heap[OwnArray(r)], item, ConcKeywords[r])
       IN  IF cidx[r] + 1 < Len(page)
           THEN /\ heap' = [heap EXCEPT ![OwnArray(r)] = arr]
                /\ cidx' = [cidx EXCEPT ![r] = cidx[r] + 1]
                /\ UNCHANGED <<cpc, replies>>
           ELSE IF src = "nitter" /\ FallsBack(arr)
                THEN ConcNitterReturns(r, arr)
                ELSE /\ heap' = [heap EXCEPT ![OwnArray(r)] = arr]
                     /\ replies' = [replies EXCEPT ![r] = Some(arr)]
                     /\ cpc' = [cpc EXCEPT ![r] = "done"]
                     /\ UNCHANGED cidx
    /\ ConcUnchanged

ConcNext ==
    \E r \in Requests : ConcStart(r) \/ ConcFetched(r) \/ ConcTimer(r)

ConcSpec == ConcInit /\ [][ConcNext]_vars

(***************************************************************************)
(* Claims about simultaneous requests (checked under ConcSpec).            *)
(***************************************************************************)
\* what a scraper returns for a page when nothing else runs
RECURSIVE AloneNitter(_, _, _)
AloneNitter(page, kw, res) ==
    IF page = <<>> THEN res
    ELSE AloneNitter(Tail(page), kw, NitterPush(res, Head(page), kw))

RECURSIVE AloneDirect(_, _, _)
AloneDirect(page, kw, res) ==
    IF page = <<>> THEN res
    ELSE AloneDirect(Tail(page), kw, DirectPush(res, Head(page), kw))

\* the response of a request that runs alone against the upstream answers up
RunAlone(up, kw) ==
    LET fromNitter == IF up.nitter = None THEN <<>>
                      ELSE AloneNitter(ValueOf(up.nitter), kw, <<>>)
        fromDirect == IF up.direct = None THEN <<>>
                      ELSE AloneDirect(ValueOf(up.direct), kw, <<>>)
    IN  IF fromNitter # <<>> THEN fromNitter ELSE fromDirect

\* C17: whatever the interleaving of the two requests' awaits, each request's
\* response is the one it would get running alone against the same upstream
\* answers, so no candidate collected for one request appears in the other's.
C17_ConcurrentRequestsIndependent ==
    \A r \in Requests :
        replies[r] # None =>
            ValueOf(replies[r]) = RunAlone(upstream[r], ConcKeywords[r])

\* C17 witness: both requests have answered, each with candidates of its own
\* collected over more than one iteration of its Nitter loop
C17_Witness ==
    /\ \A r \in Requests : replies[r] # None /\ ValueOf(replies[r]) # <<>>
    /\ ValueOf(replies[1]) # ValueOf(replies[2])
    /\ \A r \in Requests :
          upstream[r].nitter # None /\ Len(ValueOf(upstream[r].nitter)) > 1

====
